---- MODULE Spec2Model ----
(***************************************************************************)
(* The Tshirt hydrological model of models/tshirt/include/Tshirt.h: the    *)
(* parameter set, the state, the flux bundle, the reservoirs the model     *)
(* constructor and the stateless step function build, and one time step    *)
(* of tshirt_kernel::run.                                                  *)
(*                                                                         *)
(* Doubles are fixed-point integers: a height is counted in 1/Resolution   *)
(* metre, a moisture content or a suction coefficient in 1/Resolution, a   *)
(* velocity in height units per second.  A step length dt is drawn from    *)
(* the lengths that divide every height of the call, so that the           *)
(* quotients the code takes (excess / dt) are exact as they are in         *)
(* floating point.                                                         *)
(***************************************************************************)
EXTENDS Integers, Sequences, FiniteSets, TLC

VARIABLES params, state, new_state, fluxes, giuh_obj, et_params, model, pc, last

vars == <<params, state, new_state, fluxes, giuh_obj, et_params, model, pc, last>>

\* ---------------------------------------------------------------- bounds
\* Height units per metre.
Resolution == 2
\* Largest input flux of a step.
MaxInput == 2
\* Largest potential evapotranspiration demand of the ET configuration.
MaxPet == 2
\* Longest time step, in seconds.
MaxDt == 2

\* ---------------------------------------------------------------- numbers
Min(a, b) == IF a <= b THEN a ELSE b
Max(a, b) == IF a >= b THEN a ELSE b

\* The not-a-number a double takes after inf - inf; every operation on it
\* yields it again.
NaN == 0 - 1000000
IsNaN(x) == x = NaN

\* Largest r with r^q <= x, for x >= 0.
IRoot(x, q) == CHOOSE r \in 0..Max(x, 1) : r^q <= x /\ (r + 1)^q > x
\* pow(x, p/q) for x >= 0, rounded down.
pow(x, p, q) == IF p = 0 THEN 1 ELSE IRoot(x^p, q)
\* exp(x) for a whole x >= 0, rounded down.
exp(x) == IF x <= 0 THEN 1 ELSE IF x = 1 THEN 2 ELSE IF x = 2 THEN 7 ELSE 20 * (x - 2)

\* ATMOSPHERIC_PRESSURE_PASCALS / WATER_SPECIFIC_WEIGHT, in metres.
HeadRatio == 10

RECURSIVE SumSeq(_)
SumSeq(s) == IF Len(s) = 0 THEN 0 ELSE Head(s) + SumSeq(Tail(s))

\* ---------------------------------------------------------------- tshirt_params
\* Total soil column depth: 2.0 metres.
depth == 2 * Resolution

tshirt_params(maxsmc, wltsmc, satdk, satpsi, slope, b, multiplier, alpha_fc, Klf, Kn, nash_n, Cgw, expon, max_gw_storage) ==
    LET max_soil == (depth * maxsmc) \div Resolution
    IN [maxsmc |-> maxsmc, wltsmc |-> wltsmc, satdk |-> satdk, satpsi |-> satpsi,
        slope |-> slope, b |-> b, multiplier |-> multiplier, alpha_fc |-> alpha_fc,
        Klf |-> Klf, Kn |-> Kn, nash_n |-> nash_n, Cgw |-> Cgw, expon |-> expon,
        max_groundwater_storage_meters |-> max_gw_storage,
        max_soil_storage_meters |-> max_soil,
        Cschaake |-> (3 * satdk * 1000000) \div 2,
        max_lateral_flow |-> satdk * multiplier * max_soil,
        depth |-> depth]

\* ---------------------------------------------------------------- tshirt_state, tshirt_fluxes
\* nash_cascade_storeage_meters is a raw pointer: nullptr is the empty
\* sequence, an array is the sequence of its entries.
nullptr == << >>

tshirt_state(soil_storage_meters, groundwater_storage_meters, nash_cascade_storeage_meters) ==
    [soil_storage_meters |-> soil_storage_meters,
     groundwater_storage_meters |-> groundwater_storage_meters,
     nash_cascade_storeage_meters |-> nash_cascade_storeage_meters]

tshirt_fluxes(q_gw, q_perc, q_lf, runoff, et_loss) ==
    [groundwater_flow_meters_per_second |-> q_gw,
     soil_percolation_flow_meters_per_second |-> q_perc,
     soil_lateral_flow_meters_per_second |-> q_lf,
     surface_runoff_meters_per_second |-> runoff,
     et_loss_meters |-> et_loss]

\* ---------------------------------------------------------------- collaborators
\* Infiltration partitioner: the input infiltrates as far as the deficit
\* allows; both parts are >= 0 and they sum to the input.
Schaake_partitioning_scheme(dt, Cschaake, deficit, input_flux) ==
    LET infiltration == Max(0, Min(input_flux, deficit))
    IN [surface_runoff |-> input_flux - infiltration,
        subsurface_infiltration_flux |-> infiltration]

Reservoir_Outlet(a, b, activation_threshold, max_velocity) ==
    [a |-> a, b |-> b, activation_threshold_meters |-> activation_threshold,
     max_velocity_meters_per_second |-> max_velocity, velocity_meters_per_second_local |-> 0]

Nonlinear_Reservoir(minimum, maximum, current, outlets) ==
    [minimum_storage_meters |-> minimum, maximum_storage_meters |-> maximum,
     current_storage_height_meters |-> current, outlets |-> outlets]

\* The single-outlet constructor.
Nonlinear_Reservoir1(minimum, maximum, current, a, b, activation_threshold, max_velocity) ==
    Nonlinear_Reservoir(minimum, maximum, current,
                        << Reservoir_Outlet(a, b, activation_threshold, max_velocity) >>)

\* An outlet discharges a * ((S - threshold) / (max - threshold))^b above its
\* activation threshold, capped by its max velocity.
outlet_velocity(outlet, maximum, storage) ==
    LET thr == outlet.activation_threshold_meters
        cap == outlet.max_velocity_meters_per_second
    IN IF storage <= thr THEN 0
       ELSE IF maximum <= thr THEN cap
       ELSE Min(cap, (outlet.a * (storage - thr)^(outlet.b)) \div ((maximum - thr)^(outlet.b)))

\* One outlet discharges from the storage; an outlet that would take the
\* storage below the minimum discharges only what is left.
discharge_capped(outlet, minimum, storage, dt, v0) ==
    IF storage - v0 * dt < minimum
    THEN [outlet |-> [outlet EXCEPT !.velocity_meters_per_second_local =
                                        v0 - ((minimum - (storage - v0 * dt)) \div dt)],
          storage |-> minimum]
    ELSE [outlet |-> [outlet EXCEPT !.velocity_meters_per_second_local = v0],
          storage |-> storage - v0 * dt]

discharge_outlet(outlet, res, storage, dt) ==
    discharge_capped(outlet, res.minimum_storage_meters, storage, dt,
                     outlet_velocity(outlet, res.maximum_storage_meters, storage))

\* The outlets discharge one after the other.
RECURSIVE discharge(_, _, _, _)
discharge_rest(res, i, d, dt) == << d >> \o discharge(res, i + 1, d.storage, dt)
discharge(res, i, storage, dt) ==
    IF i > Len(res.outlets) THEN << >>
    ELSE discharge_rest(res, i, discharge_outlet(res.outlets[i], res, storage, dt), dt)

response_after(res, storage, ds) ==
    [reservoir |-> [res EXCEPT !.current_storage_height_meters =
                                   Min(storage, res.maximum_storage_meters),
                               !.outlets = [k \in 1..Len(ds) |-> ds[k].outlet]],
     velocity |-> SumSeq([k \in 1..Len(ds) |-> ds[k].outlet.velocity_meters_per_second_local]),
     excess |-> Max(storage - res.maximum_storage_meters, 0)]

response_discharged(res, start, ds) ==
    response_after(res, IF Len(ds) = 0 THEN start ELSE ds[Len(ds)].storage, ds)

\* response_meters_per_second: the storage takes the inflow, the outlets
\* discharge, and what the reservoir cannot hold is reported as excess.
response_meters_per_second(res, in_flow, dt) ==
    response_discharged(res, res.current_storage_height_meters + in_flow * dt,
                        discharge(res, 1, res.current_storage_height_meters + in_flow * dt, dt))

velocity_meters_per_second_for_outlet(res, index) ==
    res.outlets[index + 1].velocity_meters_per_second_local

get_storage_height_meters(res) == res.current_storage_height_meters

\* pdm03_wrapper: the PDM upper zone gives up the evaporative demand, as far
\* as it holds water.
pdm03_wrapper(pdm) == [pdm EXCEPT !.XHuz = Max(0, pdm.XHuz - pdm.pet)]

\* The unit hydrograph holds back half of a runoff pulse for the next call.
calc_giuh_output(giuh, dt, runoff) ==
    [output |-> giuh.carry + (runoff - runoff \div 2),
     giuh |-> [carry |-> runoff \div 2]]

\* ---------------------------------------------------------------- tshirt_kernel
\* calc_evapotranspiration without line 242: XHuz keeps what the call before
\* left in it.
calc_evapotranspiration_XHuz_kept(soil_m, pdm) ==
    LET called == pdm03_wrapper([pdm EXCEPT !.XHuz = pdm.XHuz + soil_m])
    IN [loss |-> called.XHuz - soil_m, et_params |-> called]

\* The loss is what the wrapper leaves in XHuz less what was put in.
calc_evapotranspiration(soil_m, pdm) ==
    LET called == pdm03_wrapper([pdm EXCEPT !.XHuz = soil_m])
    IN [loss |-> called.XHuz - soil_m, et_params |-> called]

\* Sfc.  With b = 1 both terms divide by b - 1 = 0 and their difference is
\* not a number; so is the power of a negative z1.
calc_soil_field_capacity_storage(p, s) ==
    LET head_above_water_table == p.alpha_fc * HeadRatio
        z1 == head_above_water_table - Resolution \div 2
        z2 == z1 + 2 * Resolution
    IN IF p.b = 1 \/ z1 < 0 THEN NaN
       ELSE (p.maxsmc * pow(p.satpsi, 1, p.b)
             * ((p.b * pow(z2, p.b - 1, p.b)) \div (p.b - 1)
                - (p.b * pow(z1, p.b - 1, p.b)) \div (p.b - 1))) \div Resolution

init_nash_cascade_vector(p, s, activation, max_flow_velocity) ==
    [i \in 1..p.nash_n |->
        Nonlinear_Reservoir1(0, p.max_soil_storage_meters, s.nash_cascade_storeage_meters[i],
                             p.Kn, 1, activation, max_flow_velocity)]

column_total_soil_moisture_deficit(p, s) == p.max_soil_storage_meters - s.soil_storage_meters

\* The vector subsurface_outlets as run declares it: empty.
subsurface_outlets_declared == << >>
\* Outlet 0 is the lateral flow outlet, outlet 1 the percolation outlet.
lf_outlet_index == 0
perc_outlet_index == 1

\* The outlets run assigns to elements lf_outlet_index and perc_outlet_index.
subsurface_outlets(p, Sfc) ==
    << Reservoir_Outlet(p.Klf, 1, Sfc, p.max_lateral_flow),
       Reservoir_Outlet(p.satdk * p.slope, 1, Sfc, p.satdk) >>

subsurface_reservoir(p, s, Sfc) ==
    Nonlinear_Reservoir(0, p.depth, s.soil_storage_meters, subsurface_outlets(p, Sfc))

soil_storage_after_et(new_soil_storage, et_loss_meters) == new_soil_storage - et_loss_meters

\* A pass of the cascade loop without line 343.
nash_cascade_pass_without_excess(Qlf_in, r, dt) ==
    [reservoir |-> r.reservoir, input |-> Qlf_in, response |-> r.velocity,
     subsurface_excess |-> r.excess, Qlf |-> r.velocity]

\* One pass of the cascade loop: stage i responds to Qlf and writes its
\* excess into subsurface_excess, which is then added to Qlf over dt.
nash_cascade_pass(Qlf_in, r, dt) ==
    [reservoir |-> r.reservoir, input |-> Qlf_in, response |-> r.velocity,
     subsurface_excess |-> r.excess, Qlf |-> r.velocity + r.excess \div dt]

nash_cascade_stage(reservoir, Qlf, dt) ==
    nash_cascade_pass(Qlf, response_meters_per_second(reservoir, Qlf, dt), dt)

RECURSIVE nash_cascade_passes(_, _, _, _)
nash_cascade_rest(nash_cascade, i, st, dt) ==
    << st >> \o nash_cascade_passes(nash_cascade, i + 1, st.Qlf, dt)
nash_cascade_passes(nash_cascade, i, Qlf, dt) ==
    IF i > Len(nash_cascade) THEN << >>
    ELSE nash_cascade_rest(nash_cascade, i, nash_cascade_stage(nash_cascade[i], Qlf, dt), dt)

\* The loop's passes, and Qlf and subsurface_excess as the loop leaves them.
nash_cascade_left(Qlf, subsurface_excess, sts) ==
    [Qlf |-> IF Len(sts) = 0 THEN Qlf ELSE sts[Len(sts)].Qlf,
     subsurface_excess |-> IF Len(sts) = 0 THEN subsurface_excess
                           ELSE sts[Len(sts)].subsurface_excess,
     nash_cascade |-> [k \in 1..Len(sts) |-> sts[k].reservoir],
     inputs |-> [k \in 1..Len(sts) |-> sts[k].input],
     responses |-> [k \in 1..Len(sts) |-> sts[k].response],
     excesses |-> [k \in 1..Len(sts) |-> sts[k].subsurface_excess]]

nash_cascade_loop(nash_cascade, i, Qlf, subsurface_excess, dt) ==
    nash_cascade_left(Qlf, subsurface_excess, nash_cascade_passes(nash_cascade, i, Qlf, dt))

max_gw_velocity(p) == p.Cgw * (exp(p.expon) - 1)

\* A groundwater reservoir that starts full instead of at the state's storage.
groundwater_res_full(p, s) ==
    Nonlinear_Reservoir1(0, p.max_groundwater_storage_meters, p.max_groundwater_storage_meters,
                         p.Cgw, 1, 0, max_gw_velocity(p))

groundwater_res(p, s) ==
    Nonlinear_Reservoir1(0, p.max_groundwater_storage_meters, s.groundwater_storage_meters,
                         p.Cgw, 1, 0, max_gw_velocity(p))

new_state_of_run(ns, soil_storage_meters, groundwater_storage_meters) ==
    [ns EXCEPT !.soil_storage_meters = soil_storage_meters,
               !.groundwater_storage_meters = groundwater_storage_meters]

\* One time step, in the order run computes its values.
\* Lines 293-319: the deficit, the partitioning, Sfc, and the subsurface
\* reservoir's response to the infiltration.
run_subsurface(dt, p, s, input_flux_meters) ==
    LET deficit == column_total_soil_moisture_deficit(p, s)
        part == Schaake_partitioning_scheme(dt, p.Cschaake, deficit, input_flux_meters)
        Sfc == calc_soil_field_capacity_storage(p, s)
        built == subsurface_reservoir(p, s, Sfc)
    IN [column_total_soil_moisture_deficit |-> deficit,
        surface_runoff |-> part.surface_runoff,
        subsurface_infiltration_flux |-> part.subsurface_infiltration_flux,
        Sfc |-> Sfc,
        built |-> built,
        response |-> response_meters_per_second(built, part.subsurface_infiltration_flux, dt)]

\* Lines 322-330: the two outlet velocities, the post-routing storage and the
\* ET loss taken from it.
run_soil(sub, et) ==
    LET new_soil_storage == get_storage_height_meters(sub.response.reservoir)
        evap == calc_evapotranspiration(new_soil_storage, et)
    IN [Qlf |-> velocity_meters_per_second_for_outlet(sub.response.reservoir, 0),
        Qperc |-> velocity_meters_per_second_for_outlet(sub.response.reservoir, 1),
        subsurface_excess |-> sub.response.excess,
        new_soil_storage |-> new_soil_storage,
        et_loss_meters |-> evap.loss,
        et_params |-> evap.et_params,
        soil_storage_meters |-> soil_storage_after_et(new_soil_storage, evap.loss)]

\* Lines 333-344: the cascade is built from the state and routes Qlf.
run_cascade(dt, p, s, Sfc, Qlf, subsurface_excess) ==
    LET built == init_nash_cascade_vector(p, s, Sfc, p.max_lateral_flow)
    IN [built |-> built, loop |-> nash_cascade_loop(built, 1, Qlf, subsurface_excess, dt)]

\* Lines 353-362: the groundwater reservoir responds to Qperc.
run_groundwater(dt, p, s, Qperc) ==
    LET built == groundwater_res(p, s)
    IN [built |-> built, response |-> response_meters_per_second(built, Qperc, dt)]

\* Lines 329-330, 359-368: what run writes into new_state and fluxes, with
\* the values of its local variables.
run_results(ns, sub, soil, cascade, gw, hydro) ==
    [new_state |-> new_state_of_run(ns, soil.soil_storage_meters,
                                    get_storage_height_meters(gw.response.reservoir)),
     fluxes |-> tshirt_fluxes(gw.response.velocity, soil.Qperc, cascade.loop.Qlf, hydro.output,
                              soil.et_loss_meters),
     giuh_obj |-> hydro.giuh,
     et_params |-> soil.et_params,
     column_total_soil_moisture_deficit |-> sub.column_total_soil_moisture_deficit,
     surface_runoff |-> sub.surface_runoff,
     subsurface_infiltration_flux |-> sub.subsurface_infiltration_flux,
     Sfc |-> sub.Sfc,
     subsurface_reservoir_built |-> sub.built,
     subsurface_reservoir |-> sub.response.reservoir,
     soil_excess |-> sub.response.excess,
     Qlf_soil |-> soil.Qlf,
     Qperc |-> soil.Qperc,
     new_soil_storage |-> soil.new_soil_storage,
     nash_cascade_built |-> cascade.built,
     nash_cascade |-> cascade.loop.nash_cascade,
     cascade_inputs |-> cascade.loop.inputs,
     cascade_responses |-> cascade.loop.responses,
     cascade_excesses |-> cascade.loop.excesses,
     groundwater_res_built |-> gw.built,
     groundwater_res |-> gw.response.reservoir,
     excess_gw_water |-> gw.response.excess]

run_from_soil(dt, p, s, ns, giuh, sub, soil) ==
    run_results(ns, sub, soil,
                run_cascade(dt, p, s, sub.Sfc, soil.Qlf, soil.subsurface_excess),
                run_groundwater(dt, p, s, soil.Qperc),
                calc_giuh_output(giuh, dt, sub.surface_runoff))

run_from_subsurface(dt, p, s, ns, giuh, et, sub) ==
    run_from_soil(dt, p, s, ns, giuh, sub, run_soil(sub, et))

run(dt, p, s, ns, input_flux_meters, giuh, et) ==
    run_from_subsurface(dt, p, s, ns, giuh, et, run_subsurface(dt, p, s, input_flux_meters))

\* The step when Sfc or the soil storage is not a number: every value
\* computed from it is not a number either.
run_nan(dt, p, s, ns, input_flux_meters, giuh, et) ==
    LET lost == IsNaN(s.soil_storage_meters) \/ IsNaN(giuh.carry)
        part == Schaake_partitioning_scheme(dt, p.Cschaake,
                                            column_total_soil_moisture_deficit(p, s),
                                            input_flux_meters)
        hydro == calc_giuh_output(giuh, dt, part.surface_runoff)
    IN [new_state |-> new_state_of_run(ns, NaN, NaN),
        fluxes |-> tshirt_fluxes(NaN, NaN, NaN, IF lost THEN NaN ELSE hydro.output, NaN),
        giuh_obj |-> IF lost THEN [carry |-> NaN] ELSE hydro.giuh,
        et_params |-> [et EXCEPT !.XHuz = NaN]]

\* ---------------------------------------------------------------- tshirt_model
\* tshirt_model::calc_soil_field_capacity_storage(): the field-capacity
\* formula on the model's own parameters.
model_calc_soil_field_capacity_storage(model_params) ==
    LET head_above_water_table == model_params.alpha_fc * HeadRatio
        z1 == head_above_water_table - Resolution \div 2
        z2 == z1 + 2 * Resolution
        b == model_params.b
    IN IF b = 1 \/ z1 < 0 THEN NaN
       ELSE (model_params.maxsmc * pow(model_params.satpsi, 1, b)
             * ((b * pow(z2, b - 1, b)) \div (b - 1) - (b * pow(z1, b - 1, b)) \div (b - 1)))
            \div Resolution

\* Cascade stages bounded by the soil depth, as the soil reservoir is.
model_soil_lf_nash_res_of_depth(model_params, previous_state, Sfc) ==
    [i \in 1..model_params.nash_n |->
        Nonlinear_Reservoir1(0, model_params.depth,
                             previous_state.nash_cascade_storeage_meters[i],
                             model_params.Kn, 1, Sfc, model_params.max_lateral_flow)]

model_soil_lf_nash_res(model_params, previous_state, Sfc) ==
    [i \in 1..model_params.nash_n |->
        Nonlinear_Reservoir1(0, model_params.max_soil_storage_meters,
                             previous_state.nash_cascade_storeage_meters[i],
                             model_params.Kn, 1, Sfc, model_params.max_lateral_flow)]

model_soil_reservoir(model_params, previous_state, Sfc) ==
    Nonlinear_Reservoir(0, model_params.depth, previous_state.soil_storage_meters,
                        << Reservoir_Outlet(model_params.Klf, 1, Sfc, model_params.max_lateral_flow),
                           Reservoir_Outlet(model_params.satdk * model_params.slope, 1, Sfc,
                                            model_params.satdk) >>)

model_groundwater_reservoir(model_params, previous_state) ==
    Nonlinear_Reservoir1(0, model_params.max_groundwater_storage_meters,
                         previous_state.groundwater_storage_meters, model_params.Cgw, 1, 0,
                         model_params.Cgw * (exp(model_params.expon) - 1))

tshirt_model(model_params, initial_state) ==
    LET Sfc == model_calc_soil_field_capacity_storage(model_params)
    IN [built |-> TRUE,
        model_params |-> model_params,
        previous_state |-> initial_state,
        current_state |-> initial_state,
        soil_lf_nash_res |-> model_soil_lf_nash_res(model_params, initial_state, Sfc),
        soil_reservoir |-> model_soil_reservoir(model_params, initial_state, Sfc),
        groundwater_reservoir |-> model_groundwater_reservoir(model_params, initial_state)]

\* The model the constructor builds when the cascade array of the initial
\* state holds no entry i < nash_n: reading entry i is undefined, and the
\* stage starts from whatever the read yields.
tshirt_model_reading(model_params, initial_state, read) ==
    [tshirt_model(model_params, [initial_state EXCEPT !.nash_cascade_storeage_meters = read])
        EXCEPT !.previous_state = initial_state, !.current_state = initial_state]

\* The constructor does not return.
tshirt_model_aborted(model_params, initial_state) ==
    [built |-> FALSE, model_params |-> model_params,
     previous_state |-> initial_state, current_state |-> initial_state]

\* tshirt_model(model_params): the constructor taking only parameters
\* delegates with tshirt_state(0.0, 0.0), whose cascade array is nullptr.
\* With nash_n > 0 the delegate reads nullptr[i]: it aborts or builds the
\* stages from the values read.
tshirt_model_of_params(model_params) ==
    IF model_params.nash_n = 0
    THEN { tshirt_model(model_params, tshirt_state(0, 0, nullptr)) }
    ELSE { tshirt_model_reading(model_params, tshirt_state(0, 0, nullptr), read) :
              read \in { [i \in 1..model_params.nash_n |-> h] :
                           h \in {0, model_params.max_soil_storage_meters} } }
         \cup { tshirt_model_aborted(model_params, tshirt_state(0, 0, nullptr)) }

\* ---------------------------------------------------------------- inputs
\* Primary parameters of the catchments modelled: (maxsmc, satdk, Kn, Cgw)
\* and the number of cascade stages vary, the others are fixed.
Catchment(maxsmc, satdk, Kn, Cgw, nash_n) ==
    tshirt_params(maxsmc, 0, satdk, 1, 2 * Resolution, 3, 2, 1, 1, Kn, nash_n, Cgw, 2, 2)

ParamsInDomain ==
    { Catchment(c[1], c[2], c[3], c[4], n) :
        c \in { <<Resolution, 1, 1, 1>>, <<1, 1, 0, 0>>, <<Resolution, 0, 1, 1>>, <<1, 0, 1, 1>> },
        n \in {0, 2} }

\* Parameter sets outside the domain: b = 1, a negative rate, a zero maximum
\* storage.
ParamsOutOfDomain ==
    { tshirt_params(1, 0, 1, 1, 2 * Resolution, 1, 2, 1, 1, 1, 0, 1, 2, 2),
      tshirt_params(1, 0, 1, 1, 2 * Resolution, 3, 2, 1, 0 - 1, 1, 2, 1, 2, 2),
      tshirt_params(1, 0, 1, 1, 2 * Resolution, 3, 2, 1, 1, 1, 0, 1, 2, 0) }

InDomain(p) ==
    /\ p.maxsmc > 0 /\ p.wltsmc >= 0 /\ p.satdk >= 0 /\ p.satpsi >= 0 /\ p.slope >= 0
    /\ p.multiplier >= 0 /\ p.alpha_fc >= 0 /\ p.Klf >= 0 /\ p.Kn >= 0 /\ p.Cgw >= 0
    /\ p.nash_n >= 0 /\ p.b # 1 /\ p.max_groundwater_storage_meters > 0
    /\ p.max_soil_storage_meters > 0

Heights(maximum) == { h \in 0..Max(maximum, 0) : h % 2 = 0 }

\* Cascade arrays: every stage empty, or every stage full.
Arrays(n, maximum) == { [i \in 1..n |-> h] : h \in {0, Max(maximum, 0)} }

\* dt divides every height of the call.
Exact(dt) ==
    LET hs == { state.soil_storage_meters, state.groundwater_storage_meters, et_params.pet,
                params.depth, params.max_soil_storage_meters,
                params.max_groundwater_storage_meters }
              \cup { state.nash_cascade_storeage_meters[i] :
                        i \in 1..Len(state.nash_cascade_storeage_meters) }
    IN \A h \in hs : IsNaN(h) \/ h % dt = 0

NoCall ==
    [dt |-> 0, input_flux_meters |-> 0, state |-> tshirt_state(0, 0, nullptr),
     giuh_before |-> [carry |-> 0], pet |-> 0, nan |-> TRUE, calls |-> 0,
     repeats |-> FALSE, same_giuh |-> FALSE, same_result |-> FALSE]

InitWith(P) ==
    /\ params \in P
    /\ \E soil \in Heights(params.max_soil_storage_meters),
          gw \in Heights(params.max_groundwater_storage_meters),
          nash \in Arrays(params.nash_n, params.max_soil_storage_meters) :
            state = tshirt_state(soil, gw, nash)
    /\ new_state \in { tshirt_state(0, 0, nullptr),
                       tshirt_state(0, 0, state.nash_cascade_storeage_meters) }
    /\ fluxes = tshirt_fluxes(0, 0, 0, 0, 0)
    /\ giuh_obj = [carry |-> 0]
    /\ et_params \in { [XHuz |-> 0, pet |-> e] : e \in {0, MaxPet} }
    /\ model \in { tshirt_model(params, state) } \cup tshirt_model_of_params(params)
    /\ pc = IF model.built THEN "ready" ELSE "crashed"
    /\ last = NoCall

Init == InitWith(ParamsInDomain)

InitAnyParams == InitWith(ParamsInDomain \cup ParamsOutOfDomain)

\* ---------------------------------------------------------------- actions
\* tshirt_kernel::run returns.
Run(dt, input_flux_meters) ==
    /\ pc # "crashed"
    /\ Exact(dt)
    /\ Len(state.nash_cascade_storeage_meters) >= params.nash_n
    /\ LET nan == \/ IsNaN(calc_soil_field_capacity_storage(params, state))
                  \/ IsNaN(state.soil_storage_meters)
           r == CHOOSE x \in
                  { IF nan
                    THEN run_nan(dt, params, state, new_state, input_flux_meters, giuh_obj, et_params)
                    ELSE run(dt, params, state, new_state, input_flux_meters, giuh_obj, et_params)
                  } : TRUE
           \* this call against the call before it, on the same objects
           repeats == /\ last.calls > 0 /\ dt = last.dt /\ state = last.state
                      /\ input_flux_meters = last.input_flux_meters /\ et_params.pet = last.pet
           call == [dt |-> dt, input_flux_meters |-> input_flux_meters, state |-> state,
                    giuh_before |-> giuh_obj, pet |-> et_params.pet, nan |-> nan,
                    calls |-> Min(last.calls + 1, 2),
                    subsurface_outlets_size |-> Len(subsurface_outlets_declared),
                    repeats |-> repeats,
                    same_giuh |-> repeats /\ giuh_obj = last.giuh_before,
                    \* what run writes: the fluxes and two storages of new_state
                    same_result |-> /\ repeats /\ r.fluxes = fluxes
                                    /\ r.new_state.soil_storage_meters
                                          = new_state.soil_storage_meters
                                    /\ r.new_state.groundwater_storage_meters
                                          = new_state.groundwater_storage_meters]
       IN /\ new_state' = r.new_state
          /\ fluxes' = r.fluxes
          /\ giuh_obj' = r.giuh_obj
          /\ et_params' = r.et_params
          /\ last' = call @@ r
    /\ pc' = "returned"
    /\ UNCHANGED <<params, state, model>>

\* tshirt_kernel::run does not return: subsurface_outlets is an empty vector
\* when outlets 0 and 1 are assigned, and a null cascade array is read.  The
\* process ends with the call; nothing the call would have written is kept.
RunAborts ==
    /\ pc # "crashed"
    /\ pc' = "crashed"
    /\ fluxes' = tshirt_fluxes(0, 0, 0, 0, 0)
    /\ giuh_obj' = [carry |-> 0]
    /\ et_params' = [et_params EXCEPT !.XHuz = 0]
    /\ last' = NoCall
    /\ UNCHANGED <<params, state, new_state, model>>

\* The caller takes the new state as the previous state of the next step.
Advance ==
    /\ pc = "returned"
    /\ state' = new_state
    /\ pc' = "ready"
    /\ UNCHANGED <<params, new_state, fluxes, giuh_obj, et_params, model, last>>

Next ==
    \/ \E dt \in 1..MaxDt, input_flux_meters \in {0, MaxInput} : Run(dt, input_flux_meters)
    \/ RunAborts
    \/ Advance

Spec == Init /\ [][Next]_vars

SpecAnyParams == InitAnyParams /\ [][Next]_vars

\* ---------------------------------------------------------------- properties
\* A call of run has returned and its results are numbers.
Returned == last.calls > 0 /\ ~last.nan

\* The cascade storages, as far as both states hold them.
CascadeStorageChange(after, before) ==
    SumSeq([i \in 1..Min(Len(after.nash_cascade_storeage_meters),
                         Len(before.nash_cascade_storeage_meters)) |->
              after.nash_cascade_storeage_meters[i] - before.nash_cascade_storeage_meters[i]])

StorageChange ==
    (new_state.soil_storage_meters - last.state.soil_storage_meters)
    + (new_state.groundwater_storage_meters - last.state.groundwater_storage_meters)

\* The change of the storages of the cascade reservoirs over the step.
CascadeReservoirChange ==
    SumSeq([i \in 1..Len(last.nash_cascade) |->
              last.nash_cascade[i].current_storage_height_meters
              - last.nash_cascade_built[i].current_storage_height_meters])

\* C1: after every step, input_flux * dt = (soil storage change +
\* groundwater storage change + cascade storage changes) + (surface_runoff +
\* groundwater_flow) * dt + et_loss.
C1_Conservation ==
    Returned =>
        last.input_flux_meters * last.dt =
            StorageChange + CascadeStorageChange(new_state, last.state)
            + (fluxes.surface_runoff_meters_per_second
               + fluxes.groundwater_flow_meters_per_second) * last.dt
            + fluxes.et_loss_meters

\* Where the water of a step goes: input_flux * dt = (soil storage change +
\* groundwater storage change) + (the partitioner's surface runoff + the soil
\* reservoir's lateral-outlet velocity + groundwater_flow) * dt + et_loss + the
\* excess the soil reservoir reports + the excess the groundwater reservoir
\* reports.  The two excesses are written to no output of run.
WaterOfTheStep ==
    Returned =>
        last.input_flux_meters * last.dt =
            StorageChange
            + (last.surface_runoff + last.Qlf_soil
               + fluxes.groundwater_flow_meters_per_second) * last.dt
            + fluxes.et_loss_meters + last.soil_excess + last.excess_gw_water

\* Water the step wrote nowhere: with no cascade, an idle unit hydrograph and
\* no runoff, lateral flow or ET, the outputs of run account for less than
\* the input.
C1_WaterLost ==
    /\ Returned /\ params.nash_n = 0 /\ last.giuh_before.carry = 0
    /\ last.surface_runoff = 0 /\ fluxes.soil_lateral_flow_meters_per_second = 0
    /\ fluxes.et_loss_meters = 0
    /\ last.input_flux_meters * last.dt >
          StorageChange + fluxes.groundwater_flow_meters_per_second * last.dt

WithinBounds(s) ==
    /\ 0 <= s.soil_storage_meters /\ s.soil_storage_meters <= params.max_soil_storage_meters
    /\ 0 <= s.groundwater_storage_meters
    /\ s.groundwater_storage_meters <= params.max_groundwater_storage_meters
    /\ \A i \in 1..Len(s.nash_cascade_storeage_meters) :
          /\ 0 <= s.nash_cascade_storeage_meters[i]
          /\ s.nash_cascade_storeage_meters[i] <= params.max_soil_storage_meters

\* C2: in every reachable state the soil storage is within
\* [0, max_soil_storage_meters], the groundwater storage within
\* [0, max_groundwater_storage_meters] and every cascade storage within its
\* reservoir's bound [0, max_soil_storage_meters].
C2_Bounds == WithinBounds(state) /\ (Returned => WithinBounds(new_state))

\* A reservoir of the step reported an excess.
AnyExcess ==
    \/ last.soil_excess # 0
    \/ last.excess_gw_water # 0
    \/ \E i \in 1..Len(last.cascade_excesses) : last.cascade_excesses[i] # 0

\* C3: whenever a reservoir of the step reports a non-zero excess, the
\* lateral-flow total carries every reported excess over dt: the lateral flow
\* times dt is what left the soil's lateral outlet, less what the cascade
\* reservoirs kept, plus the excess of the soil and groundwater reservoirs.
C3_ExcessAccounted ==
    (Returned /\ AnyExcess) =>
        fluxes.soil_lateral_flow_meters_per_second * last.dt =
            last.Qlf_soil * last.dt - CascadeReservoirChange
            + last.soil_excess + last.excess_gw_water

\* C4: after run returns, new_state holds the post-routing soil storage less
\* the ET loss, the groundwater reservoir's storage after its response, and
\* (in the array the caller gave new_state) for every stage i < nash_n the
\* storage of stage i after its response.
C4_NewStateAssembled ==
    Returned =>
        /\ new_state.soil_storage_meters = last.new_soil_storage - fluxes.et_loss_meters
        /\ new_state.groundwater_storage_meters =
              last.groundwater_res.current_storage_height_meters
        /\ Len(new_state.nash_cascade_storeage_meters) >= params.nash_n =>
              \A i \in 1..params.nash_n :
                  new_state.nash_cascade_storeage_meters[i] =
                      last.nash_cascade[i].current_storage_height_meters

\* What the step's values must be when each is computed from the values
\* before it in the order of run.
PartitionedFromPreviousDeficit ==
    /\ last.column_total_soil_moisture_deficit =
          params.max_soil_storage_meters - last.state.soil_storage_meters
    /\ [surface_runoff |-> last.surface_runoff,
        subsurface_infiltration_flux |-> last.subsurface_infiltration_flux]
       = Schaake_partitioning_scheme(last.dt, params.Cschaake,
                                     params.max_soil_storage_meters
                                     - last.state.soil_storage_meters,
                                     last.input_flux_meters)

InfiltrationEntersSoil ==
    /\ last.subsurface_reservoir_built.current_storage_height_meters
          = last.state.soil_storage_meters
    /\ last.subsurface_reservoir =
          response_meters_per_second(last.subsurface_reservoir_built,
                                     last.subsurface_infiltration_flux, last.dt).reservoir
    /\ last.Qlf_soil = last.subsurface_reservoir.outlets[1].velocity_meters_per_second_local
    /\ last.Qperc = last.subsurface_reservoir.outlets[2].velocity_meters_per_second_local
    /\ last.new_soil_storage = last.subsurface_reservoir.current_storage_height_meters

EtFromPostRoutingStorage ==
    fluxes.et_loss_meters =
        pdm03_wrapper([XHuz |-> last.new_soil_storage, pet |-> last.pet]).XHuz
        - last.new_soil_storage

GroundwaterReceivesQperc ==
    /\ last.groundwater_res =
          response_meters_per_second(last.groundwater_res_built, last.Qperc, last.dt).reservoir
    /\ fluxes.groundwater_flow_meters_per_second =
          response_meters_per_second(last.groundwater_res_built, last.Qperc, last.dt).velocity

FluxesOtherThanLateral ==
    /\ fluxes.soil_percolation_flow_meters_per_second = last.Qperc
    /\ fluxes.surface_runoff_meters_per_second =
          calc_giuh_output(last.giuh_before, last.dt, last.surface_runoff).output

CascadeStagesRespond ==
    /\ Len(last.cascade_inputs) = params.nash_n
    /\ \A i \in 1..params.nash_n :
          last.cascade_responses[i] =
              response_meters_per_second(last.nash_cascade_built[i], last.cascade_inputs[i],
                                         last.dt).velocity
    /\ params.nash_n > 0 => last.cascade_inputs[1] = last.Qlf_soil

\* C5 as stated: the fixed data-flow order of one step, where each stage i+1
\* receives the output of stage i and the lateral flow of the flux bundle is
\* the output of the last cascade stage.
C5_DataFlowAsStated ==
    Returned =>
        /\ PartitionedFromPreviousDeficit
        /\ InfiltrationEntersSoil
        /\ EtFromPostRoutingStorage
        /\ GroundwaterReceivesQperc
        /\ FluxesOtherThanLateral
        /\ CascadeStagesRespond
        /\ \A i \in 1..(params.nash_n - 1) :
              last.cascade_inputs[i + 1] = last.cascade_responses[i]
        /\ params.nash_n > 0 =>
              fluxes.soil_lateral_flow_meters_per_second =
                  last.cascade_responses[params.nash_n]

\* C5 amended: the same data-flow order, where each stage i+1 receives the
\* output of stage i plus the excess of stage i over dt, and the lateral flow
\* of the flux bundle is the output of the last stage plus its excess over dt
\* (with no stage, the soil reservoir's lateral-outlet velocity).
C5_DataFlow ==
    Returned =>
        /\ PartitionedFromPreviousDeficit
        /\ InfiltrationEntersSoil
        /\ EtFromPostRoutingStorage
        /\ GroundwaterReceivesQperc
        /\ FluxesOtherThanLateral
        /\ CascadeStagesRespond
        /\ \A i \in 1..(params.nash_n - 1) :
              last.cascade_inputs[i + 1] =
                  last.cascade_responses[i] + last.cascade_excesses[i] \div last.dt
        /\ fluxes.soil_lateral_flow_meters_per_second =
              IF params.nash_n = 0 THEN last.Qlf_soil
              ELSE last.cascade_responses[params.nash_n]
                   + last.cascade_excesses[params.nash_n] \div last.dt

\* A step whose first cascade stage overflows into the second while water
\* percolates and the partitioner sheds runoff.
C5_Witness ==
    /\ Returned /\ params.nash_n = 2 /\ last.dt > 1
    /\ last.Qlf_soil > 0 /\ last.cascade_excesses[1] > 0 /\ last.cascade_inputs[2] > 0
    /\ last.Qperc > 0

GroundwaterAsStated(res, s) ==
    /\ res.minimum_storage_meters = 0
    /\ res.maximum_storage_meters = params.max_groundwater_storage_meters
    /\ res.current_storage_height_meters = s.groundwater_storage_meters
    /\ Len(res.outlets) = 1
    /\ res.outlets[1].a = params.Cgw
    /\ res.outlets[1].b = params.expon
    /\ res.outlets[1].activation_threshold_meters = 0
    /\ res.outlets[1].max_velocity_meters_per_second = params.Cgw * (exp(params.expon) - 1)

\* C7: every groundwater reservoir the code builds has the storage range
\* [0, max_groundwater_storage_meters], the state's groundwater storage as
\* initial storage, and one outlet with coefficient Cgw, exponent expon,
\* activation threshold 0 and max velocity Cgw * (e^expon - 1).
C7_GroundwaterOutlet ==
    /\ model.built => GroundwaterAsStated(model.groundwater_reservoir, model.previous_state)
    /\ Returned => GroundwaterAsStated(last.groundwater_res_built, last.state)

\* C8: no step runs with a parameter set whose primary parameters violate
\* their domain: such a set is rejected when it is constructed.
C8_ConfigurationRejected == last.calls > 0 => InDomain(params)

ZeroState(s) ==
    /\ s.soil_storage_meters = 0 /\ s.groundwater_storage_meters = 0
    /\ \A i \in 1..Len(s.nash_cascade_storeage_meters) : s.nash_cascade_storeage_meters[i] = 0

\* The soil and groundwater storages of new_state are those of the step's
\* state, and so is every cascade storage new_state holds.
NewStateEqualsPrevious ==
    /\ new_state.soil_storage_meters = last.state.soil_storage_meters
    /\ new_state.groundwater_storage_meters = last.state.groundwater_storage_meters
    /\ \A i \in 1..Min(params.nash_n, Len(new_state.nash_cascade_storeage_meters)) :
          new_state.nash_cascade_storeage_meters[i] = last.state.nash_cascade_storeage_meters[i]

C11_IndexSafety ==
    /\ model.built =>
          Len(model.previous_state.nash_cascade_storeage_meters) >= model.model_params.nash_n
    /\ last.calls > 0 =>
          /\ last.subsurface_outlets_size > lf_outlet_index
          /\ last.subsurface_outlets_size > perc_outlet_index
          /\ Len(last.state.nash_cascade_storeage_meters) >= params.nash_n

\* The constructor alone: every model built holds a cascade array of at
\* least nash_n entries.
CascadeArrayHeldByModel ==
    model.built =>
        Len(model.previous_state.nash_cascade_storeage_meters) >= model.model_params.nash_n

\* The step alone: a step that returned assigned its two outlets within
\* the outlet collection.
OutletsAssignedWithinVector ==
    last.calls > 0 => last.subsurface_outlets_size > perc_outlet_index

====
